---- MODULE Spec2Model ----
(***************************************************************************)
(* Model of the Checker of src/src/lib.rs: a word-frequency table built by *)
(* train and queried by correct through the edit generator edits.          *)
(* Strings are sequences of character codes (ASCII): 'a'..'z' = 97..122,   *)
(* 'A'..'Z' = 65..90, ' ' = 32.                                            *)
(***************************************************************************)
EXTENDS Integers, Sequences, FiniteSets, TLC

(* ---- bounds of the explored inputs ---- *)
MaxTextLen == 3
MaxWordLen == 2
MaxTrains == 2

(* characters the training texts are drawn from: 'a', 'B', ' ' *)
TextChars == {97, 66, 32}
(* characters the query words are drawn from: 'a', 'b' *)
WordChars == {97, 98}

RECURSIVE SeqsUpTo(_, _)
SeqsUpTo(S, n) ==
  IF n = 0 THEN {<<>>}
  ELSE LET shorter == SeqsUpTo(S, n - 1)
       IN  shorter \cup {Append(s, c) : s \in {t \in shorter : Len(t) = n - 1}, c \in S}

Texts == SeqsUpTo(TextChars, MaxTextLen)
Words == SeqsUpTo(WordChars, MaxWordLen)

(* ---- Checker::new ---- *)
letters == [i \in 1..26 |-> 96 + i]

EmptyTable == [w \in {} |-> 0]

(* ---- Checker::train ---- *)
IsLower(c) == c \in 97..122

to_lowercase(text) ==
  [i \in 1..Len(text) |-> IF text[i] \in 65..90 THEN text[i] + 32 ELSE text[i]]

(* mutant: the match stops at its first character *)
MatchEnd_lazy(s, pos) == pos

(* end of the greedy match of [a-z]+ that starts at pos *)
RECURSIVE MatchEnd(_, _)
MatchEnd(s, pos) ==
  IF pos < Len(s) /\ IsLower(s[pos + 1]) THEN MatchEnd(s, pos + 1) ELSE pos

(* mutant: a match is reported only when a character follows it *)
RECURSIVE find_iter_dropping_last(_, _)
find_iter_dropping_last(s, pos) ==
  IF pos > Len(s) THEN <<>>
  ELSE IF ~IsLower(s[pos]) THEN find_iter_dropping_last(s, pos + 1)
  ELSE LET e == MatchEnd(s, pos)
       IN  IF e = Len(s) THEN <<>>
           ELSE <<SubSeq(s, pos, e)>> \o find_iter_dropping_last(s, e + 1)

(* the successive non-overlapping leftmost matches of [a-z]+ from pos on *)
RECURSIVE find_iter(_, _)
find_iter(s, pos) ==
  IF pos > Len(s) THEN <<>>
  ELSE IF ~IsLower(s[pos]) THEN find_iter(s, pos + 1)
  ELSE LET e == MatchEnd(s, pos)
       IN  <<SubSeq(s, pos, e)>> \o find_iter(s, e + 1)

(* mutant: a new entry is inserted with 0 and only an old one is incremented *)
Increment_if_present(table, m) ==
  IF m \in DOMAIN table THEN [table EXCEPT ![m] = @ + 1] ELSE table @@ (m :> 0)

(* *self.freq_words.entry(m).or_insert(0) += 1 *)
Increment(table, m) ==
  LET entry == IF m \in DOMAIN table THEN table ELSE table @@ (m :> 0)
  IN  [entry EXCEPT ![m] = @ + 1]

RECURSIVE CountAll(_, _)
CountAll(table, ms) ==
  IF ms = <<>> THEN table
  ELSE CountAll(Increment(table, Head(ms)), Tail(ms))

(* mutant: the table is rebuilt from the text alone *)
train_fresh(table, text) == CountAll(EmptyTable, find_iter(to_lowercase(text), 1))

train(table, text) == CountAll(table, find_iter(to_lowercase(text), 1))

(* ---- Checker::edits ---- *)
Returned(v) == [panic |-> FALSE, value |-> v]
Panicked == [panic |-> TRUE, value |-> <<>>]

deletion(word) ==
  [i \in 1..Len(word) |->
     SubSeq(word, 1, i - 1) \o SubSeq(word, i + 1, Len(word))]

transposition(word) ==
  [i \in 1..(Len(word) - 1) |->
     SubSeq(word, 1, i - 1) \o <<word[i + 1], word[i]>>
       \o SubSeq(word, i + 2, Len(word))]

alteration(word) ==
  [k \in 1..(Len(word) * Len(letters)) |->
     LET i == ((k - 1) \div Len(letters)) + 1
         c == letters[((k - 1) % Len(letters)) + 1]
     IN  SubSeq(word, 1, i - 1) \o <<c>> \o SubSeq(word, i + 1, Len(word))]

insertion(word) ==
  [k \in 1..((Len(word) + 1) * Len(letters)) |->
     LET i == ((k - 1) \div Len(letters)) + 1
         c == letters[((k - 1) % Len(letters)) + 1]
     IN  SubSeq(word, 1, i - 1) \o <<c>> \o SubSeq(word, i, Len(word))]

(* word.len() - 1 underflows for the empty word: the subtraction panics   *)
(* with overflow checks, and without them the range 0..usize::MAX makes   *)
(* the extend panic; in both builds edits("") does not return.            *)
edits(word) ==
  IF Len(word) = 0 THEN Panicked
  ELSE Returned(deletion(word) \o transposition(word)
                  \o alteration(word) \o insertion(word))

(* ---- Checker::correct ---- *)
Max(S) == CHOOSE m \in S : \A x \in S : x <= m

(* candidates: HashMap<u32, String> filled in iteration order, a later    *)
(* insert of the same frequency replacing the earlier one                 *)
candidates(table, es) ==
  LET known == {i \in 1..Len(es) : es[i] \in DOMAIN table}
  IN  [f \in {table[es[i]] : i \in known} |->
         es[Max({i \in known : table[es[i]] = f})]]

(* flat_map(..).collect(): the concatenation of ss[lo..hi] in order *)
RECURSIVE Flatten(_, _, _)
Flatten(ss, lo, hi) ==
  IF lo > hi THEN <<>>
  ELSE IF lo = hi THEN ss[lo]
  ELSE LET mid == (lo + hi) \div 2
       IN  Flatten(ss, lo, mid) \o Flatten(ss, mid + 1, hi)

(* lines 43-88: the search through the edits and the edits of the edits *)
correct_by_edits(table, word) ==
  LET possible_edits == edits(word)
  IN  IF possible_edits.panic THEN Panicked
      ELSE LET c1 == candidates(table, possible_edits.value)
           IN  IF DOMAIN c1 # {} THEN Returned(c1[Max(DOMAIN c1)])
               ELSE LET each == [i \in 1..Len(possible_edits.value) |->
                                   edits(possible_edits.value[i])]
                    IN  IF \E i \in 1..Len(each) : each[i].panic THEN Panicked
                        ELSE LET edits_of_edits ==
                                   Flatten([i \in 1..Len(each) |-> each[i].value],
                                           1, Len(each))
                                 c2 == candidates(table, edits_of_edits)
                             IN  IF DOMAIN c2 # {} THEN Returned(c2[Max(DOMAIN c2)])
                                 ELSE Returned(word)

(* mutant: the lookup of the word itself is skipped *)
correct_without_lookup(table, word) == correct_by_edits(table, word)

correct(table, word) ==
  IF word \in DOMAIN table THEN Returned(word)
  ELSE correct_by_edits(table, word)

(* ---- state ---- *)
VARIABLES freq_words, op, arg, ret, before, trains, running

vars == <<freq_words, op, arg, ret, before, trains, running>>

Init ==
  /\ freq_words = EmptyTable
  /\ op = "new"
  /\ arg = <<>>
  /\ ret = Returned(<<>>)
  /\ before = EmptyTable
  /\ trains = 0
  /\ running = TRUE

Train(text) ==
  /\ running
  /\ trains < MaxTrains
  /\ freq_words' = train(freq_words, text)
  /\ op' = "train"
  /\ arg' = text
  /\ ret' = Returned(<<>>)
  /\ before' = freq_words
  /\ trains' = trains + 1
  /\ running' = TRUE

(* mutant: the lookup goes through entry(word).or_insert(0) *)
CorrectInserting(word) ==
  /\ running
  /\ ret' = correct(freq_words, word)
  /\ op' = "correct"
  /\ arg' = word
  /\ before' = freq_words
  /\ running' = ~ret'.panic
  /\ freq_words' = IF word \in DOMAIN freq_words THEN freq_words
                   ELSE freq_words @@ (word :> 0)
  /\ UNCHANGED trains

Correct(word) ==
  /\ running
  /\ ret' = correct(freq_words, word)
  /\ op' = "correct"
  /\ arg' = word
  /\ before' = freq_words
  /\ running' = ~ret'.panic
  /\ UNCHANGED <<freq_words, trains>>

DoTrain == \E text \in Texts : Train(text)
DoCorrect == \E word \in Words : Correct(word)

Next == DoTrain \/ DoCorrect

Spec == Init /\ [][Next]_vars

(***************************************************************************)
(* Vocabulary of the properties, stated independently of the operators     *)
(* above: the edit-distance-1 strings of a word as sec. 4.2 describes them  *)
(* (defined for every length), and the letter runs of a text.              *)
(***************************************************************************)
Alphabet == 97..122

Without(w, i) == [j \in 1..(Len(w) - 1) |-> IF j < i THEN w[j] ELSE w[j + 1]]

Swapped(w, i) ==
  [j \in 1..Len(w) |-> IF j = i THEN w[i + 1] ELSE IF j = i + 1 THEN w[i] ELSE w[j]]

Replaced(w, i, c) == [j \in 1..Len(w) |-> IF j = i THEN c ELSE w[j]]

(* c inserted after the first i characters of w *)
Inserted(w, i, c) ==
  [j \in 1..(Len(w) + 1) |-> IF j <= i THEN w[j] ELSE IF j = i + 1 THEN c ELSE w[j - 1]]

Distance1(w) ==
  {Without(w, i) : i \in 1..Len(w)}
    \cup {Swapped(w, i) : i \in 1..(Len(w) - 1)}
    \cup {Replaced(w, i, c) : i \in 1..Len(w), c \in Alphabet}
    \cup {Inserted(w, i, c) : i \in 0..Len(w), c \in Alphabet}

Known(table, S) == {e \in S : e \in DOMAIN table}

(* x is an edit of an edit of w *)
InDistance2(w, x) == \E e \in Distance1(w) : x \in Distance1(e)

(* the keys of the table among the edits of the edits of w *)
KnownDistance2(table, w) == {x \in DOMAIN table : InDistance2(w, x)}

(* r is a key of the table in S whose count no key of the table in S exceeds *)
IsBest(table, S, r) ==
  /\ r \in Known(table, S)
  /\ \A e \in Known(table, S) : table[e] <= table[r]

CountOf(table, x) == IF x \in DOMAIN table THEN table[x] ELSE 0

IsLetter(c) == c \in 65..90 \/ c \in 97..122

(* the character c of a text reads as the lowercase letter x *)
ReadsAs(c, x) == c = x \/ (c \in 65..90 /\ c + 32 = x)

(* text[i..j] is a maximal run of letters *)
IsRun(text, i, j) ==
  /\ i <= j
  /\ \A k \in i..j : IsLetter(text[k])
  /\ (i = 1 \/ ~IsLetter(text[i - 1]))
  /\ (j = Len(text) \/ ~IsLetter(text[j + 1]))

(* the number of maximal letter runs of text that read as x *)
Runs(text, x) ==
  Cardinality({p \in (1..Len(text)) \X (1..Len(text)) :
                 /\ IsRun(text, p[1], p[2])
                 /\ p[2] - p[1] + 1 = Len(x)
                 /\ \A k \in 1..Len(x) : ReadsAs(text[p[1] + k - 1], x[k])})

(* the lowercase words a text can contribute *)
RunWords(text) ==
  {[k \in 1..(p[2] - p[1] + 1) |->
      IF text[p[1] + k - 1] \in 65..90 THEN text[p[1] + k - 1] + 32
      ELSE text[p[1] + k - 1]] :
     p \in {q \in (1..Len(text)) \X (1..Len(text)) : IsRun(text, q[1], q[2])}}

(* C1: correct of a word that is a key returns the word itself, also when  *)
(* a neighbour within the edits has a strictly higher count.               *)
C1_ExactMatchWins ==
  (op = "correct" /\ arg \in DOMAIN before) => ret = Returned(arg)

C1_Witness ==
  /\ op = "correct"
  /\ arg \in DOMAIN before
  /\ \E e \in Known(before, Distance1(arg)) : before[e] > before[arg]
  /\ ret = Returned(arg)

(* C2: for a word that is not a key and has a key among its edits, correct *)
(* returns a key among its edits of maximal count.                         *)
C2_BestDistance1 ==
  (op = "correct" /\ arg \notin DOMAIN before
     /\ Known(before, Distance1(arg)) # {})
  => (~ret.panic /\ IsBest(before, Distance1(arg), ret.value))

(* C2 restricted to the words of length >= 1, where edits returns *)
C2_BestDistance1_NonEmpty ==
  (op = "correct" /\ arg \notin DOMAIN before /\ Len(arg) >= 1
     /\ Known(before, Distance1(arg)) # {})
  => (~ret.panic /\ IsBest(before, Distance1(arg), ret.value))

(* C3: for a word of any length that is not a key and has no key among its *)
(* edits but one among the edits of its edits, correct returns a key among *)
(* the edits of its edits of maximal count.                                *)
C3_BestDistance2 ==
  (op = "correct" /\ arg \notin DOMAIN before
     /\ Known(before, Distance1(arg)) = {}
     /\ KnownDistance2(before, arg) # {})
  => (/\ ~ret.panic
      /\ ret.value \in KnownDistance2(before, arg)
      /\ \A x \in KnownDistance2(before, arg) : before[x] <= before[ret.value])

(* C3 restricted to the words of length >= 2 *)
C3_BestDistance2_Len2 ==
  (op = "correct" /\ arg \notin DOMAIN before /\ Len(arg) >= 2
     /\ Known(before, Distance1(arg)) = {}
     /\ KnownDistance2(before, arg) # {})
  => (/\ ~ret.panic
      /\ ret.value \in KnownDistance2(before, arg)
      /\ \A x \in KnownDistance2(before, arg) : before[x] <= before[ret.value])

(* C4: when neither the word nor any string within two edits of it is a    *)
(* key, correct completes and returns the word unchanged, the empty word   *)
(* and the one-letter words included.                                      *)
C4_FallbackIdentity ==
  (op = "correct" /\ arg \notin DOMAIN before
     /\ Known(before, Distance1(arg)) = {}
     /\ KnownDistance2(before, arg) = {})
  => ret = Returned(arg)

(* C4 restricted to the words of length >= 2 *)
C4_FallbackIdentity_Len2 ==
  (op = "correct" /\ arg \notin DOMAIN before /\ Len(arg) >= 2
     /\ Known(before, Distance1(arg)) = {}
     /\ KnownDistance2(before, arg) = {})
  => ret = Returned(arg)

(* the split of text after its first k characters *)
Prefix(text, k) == SubSeq(text, 1, k)
Suffix(text, k) == SubSeq(text, k + 1, Len(text))

(* C5 as stated: train on the concatenation of a and b yields the table    *)
(* that train(a) followed by train(b) yields, for every a and b.           *)
C5_ConcatAsStated ==
  op = "train" =>
    \A k \in 0..Len(arg) :
      train(train(before, Prefix(arg, k)), Suffix(arg, k)) = freq_words

(* a letter run of the concatenation crosses the split after k characters *)
RunAcross(text, k) ==
  /\ 1 <= k
  /\ k < Len(text)
  /\ IsLetter(text[k])
  /\ IsLetter(text[k + 1])

(* C5 amended: train on the concatenation of a and b yields the table that *)
(* train(a) followed by train(b) yields whenever a is empty, b is empty,   *)
(* a does not end with a letter or b does not start with one.              *)
C5_ConcatAtBoundary ==
  op = "train" =>
    \A k \in 0..Len(arg) :
      ~RunAcross(arg, k) =>
        train(train(before, Prefix(arg, k)), Suffix(arg, k)) = freq_words

C5_Witness ==
  /\ op = "train"
  /\ \E k \in 1..(Len(arg) - 1) :
       /\ ~RunAcross(arg, k)
       /\ RunWords(Prefix(arg, k)) # {}
       /\ RunWords(Suffix(arg, k)) # {}
       /\ train(train(before, Prefix(arg, k)), Suffix(arg, k)) = freq_words
  /\ before # EmptyTable

(* C6: after train(t) the count of each word is its count before plus the  *)
(* number of maximal letter runs of t that read as the word in lowercase;  *)
(* the keys are the old keys and the words with such a run.                *)
C6_TrainCounts ==
  op = "train" =>
    /\ DOMAIN freq_words = DOMAIN before \cup RunWords(arg)
    /\ \A x \in DOMAIN freq_words \cup DOMAIN before \cup RunWords(arg) \cup Words :
         CountOf(freq_words, x) = CountOf(before, x) + Runs(arg, x)
    /\ (arg = <<>> => freq_words = before)

C6_Witness ==
  /\ op = "train"
  /\ \E i \in 1..Len(arg) : arg[i] \in 65..90
  /\ \E i \in 1..Len(arg) : ~IsLetter(arg[i])
  /\ \E x \in DOMAIN before : freq_words[x] = before[x] + 1
  /\ \E x \in DOMAIN freq_words : x \notin DOMAIN before

(* C7: a call of correct leaves the keys and the counts of the table as    *)
(* they were, whatever its outcome.                                        *)
C7_CorrectReadOnly == [][op' = "correct" => freq_words' = freq_words]_vars

C7_Witness ==
  /\ op = "correct"
  /\ ~ret.panic
  /\ arg \notin DOMAIN before
  /\ ret.value # arg
  /\ ret.value \notin Distance1(arg)
  /\ ret.value \in KnownDistance2(before, arg)
  /\ freq_words = before

(* C8: every key of the table is a non-empty string of lowercase letters   *)
(* of the alphabet and every count is at least 1.                          *)
C8_KeysAndCounts ==
  \A w \in DOMAIN freq_words :
    /\ Len(w) >= 1
    /\ \A i \in 1..Len(w) : \E j \in 1..Len(letters) : w[i] = letters[j]
    /\ freq_words[w] >= 1

C8_Witness ==
  /\ op = "correct"
  /\ trains = MaxTrains
  /\ Cardinality(DOMAIN freq_words) >= 2
  /\ \E w \in DOMAIN freq_words : freq_words[w] >= 2

(* C9: no step removes a key of the table or lowers a count.               *)
C9_Monotone ==
  [][\A w \in DOMAIN freq_words :
       w \in DOMAIN freq_words' /\ freq_words'[w] >= freq_words[w]]_vars

C9_Witness ==
  /\ op = "train"
  /\ \E w \in DOMAIN before : freq_words[w] > before[w]
  /\ \E w \in DOMAIN freq_words : w \notin DOMAIN before

(* the list sec. 4.2 describes for a word: deletions, transpositions,      *)
(* alterations and insertions in that order, none left out or merged       *)
EditsAsDescribed(word) ==
  LET r == edits(word)
      v == r.value
      n == Len(word)
      t == IF n <= 1 THEN 0 ELSE n - 1
  IN  /\ ~r.panic
      /\ Len(v) = n + t + n * 26 + (n + 1) * 26
      /\ \A k \in 1..n : v[k] = Without(word, k)
      /\ \A k \in 1..t : v[n + k] = Swapped(word, k)
      /\ \A i \in 1..n : \A c \in 1..26 :
           v[n + t + (i - 1) * 26 + c] = Replaced(word, i, 96 + c)
      /\ \A i \in 0..n : \A c \in 1..26 :
           v[n + t + n * 26 + i * 26 + c] = Inserted(word, i, 96 + c)

(* C10: for a word of every length >= 0, edits completes and returns the   *)
(* len deletions, len-1 (or 0) transpositions, len*26 alterations and      *)
(* (len+1)*26 insertions in that order; 26 strings for the empty word.     *)
C10_EditsList ==
  (op = "correct" /\ arg \notin DOMAIN before) => EditsAsDescribed(arg)

(* C10 restricted to the words of length >= 1 *)
C10_EditsList_NonEmpty ==
  (op = "correct" /\ arg \notin DOMAIN before /\ Len(arg) >= 1)
  => EditsAsDescribed(arg)
====
